---- MODULE Spec2Model ----
(***************************************************************************)
(* State-machine model of the kenlord-sms Flask application (src/app.py,   *)
(* src/models.py, src/init_db.py): three tables (user, category, contact), *)
(* one browser session, and one handler per route.  Every request is       *)
(* handled to completion by one action, including the commit (or the       *)
(* failed commit) and the scoped session's teardown at the end of the      *)
(* request.                                                                *)
(*                                                                         *)
(* Python strings are sequences of one-character strings, so that          *)
(* str.strip() and str() are computed rather than assumed.  None and the   *)
(* spreadsheet's empty cell (NaN) are one-element sequences holding a      *)
(* marker that is no character.                                            *)
(***************************************************************************)
EXTENDS Integers, Sequences, FiniteSets, TLC

(* ------------------------------ bounds --------------------------------- *)

\* highest category.id the model allocates
MaxCategoryId == 2
\* highest contact.id the model allocates
MaxContactId == 2

(* ------------------------------ values --------------------------------- *)

\* Python None (a missing form field, a NULL column)
NONE == <<"<None>">>
\* pandas' value of an empty cell
NAN == <<"<NaN>">>
\* a NULL integer column (contact.category_id)
NULLID == 0
\* no authenticated user in the session cookie
ANONYMOUS == 0

\* request.form['name'] of add_category
CategoryNames == {<<>>, <<" ">>, <<"A">>, <<"B">>}
\* request.form.get('name') of add_contact / edit_contact
ContactNames == {NONE, <<"A">>}
\* request.form.get('phone') of add_contact
ContactPhones == {NONE, <<>>, <<" ">>, <<"1">>}
\* request.form.get('phone') of edit_contact
EditPhones == {NONE, <<"1">>}
\* request.form.get('message') of send_sms
Messages == {NONE, <<>>, <<" ">>, <<"h", "i">>}
\* request.form['username'] / ['password'] of login
Usernames == {<<"a", "d", "m", "i", "n">>, <<"b", "o", "b">>}
Passwords == {<<"1", "2", "3", "4", "5">>, <<"x">>}
\* cells of the uploaded sheet's "Name" and "Phone" columns: a text cell, or
\* an empty one
NameCells == {NAN, <<"A">>}
PhoneCells == {NAN, <<"1">>}

(* ------------------------- pure helper functions ----------------------- *)

IsSpace(ch) == ch \in {" ", "\t", "\n"}

RECURSIVE LStrip(_)
LStrip(s) ==
    IF s = <<>> THEN <<>>
    ELSE IF IsSpace(Head(s)) THEN LStrip(Tail(s)) ELSE s

RECURSIVE RStrip(_)
RStrip(s) ==
    IF s = <<>> THEN <<>>
    ELSE IF IsSpace(s[Len(s)]) THEN RStrip(SubSeq(s, 1, Len(s) - 1)) ELSE s

\* str.strip()
NoStrip(s) == s
Strip(s) == RStrip(LStrip(s))

\* str(row['Phone']): an empty cell is the float NaN, whose str() is "nan"
Str(cell) == IF cell = NAN THEN <<"n", "a", "n">> ELSE cell

\* what sqlite3 binds for a Python value: a float NaN is stored as NULL
Bind(v) == IF v = NAN THEN NONE ELSE v

Max(S) == CHOOSE x \in S : \A y \in S : y <= x

\* the rowid SQLite gives an INSERT into a table with the ids `dom`
NextId(dom) == IF dom = {} THEN 1 ELSE Max(dom) + 1

\* werkzeug's salted hash, idealised as collision free
GeneratePasswordHash(salt, password) == [salt |-> salt, digest |-> <<salt, password>>]

\* User.check_password
CheckPasswordAlways(user, password) == TRUE
CheckPassword(user, password) ==
    user.password_hash = GeneratePasswordHash(user.password_hash.salt, password)

(* ------------------------------- state --------------------------------- *)

VARIABLES
    users,       \* user table: id -> [username, password_hash]
    categories,  \* category table: id -> [name]
    contacts,    \* contact table: id -> [name, phone, category_id]
    session,     \* the browser's session: ANONYMOUS or a user id
    pending,     \* objects added to db.session and not yet flushed
    last         \* the response to the last request

vars == <<users, categories, contacts, session, pending, last>>

\* init_db.py: the one provisioned user
AdminUser ==
    [username |-> <<"a", "d", "m", "i", "n">>,
     password_hash |-> GeneratePasswordHash("s1", <<"1", "2", "3", "4", "5">>)]

\* url_for(endpoint, ...): the endpoint a redirect names (its parameters are left out)
Url(endpoint) == [endpoint |-> endpoint]
NoUrl == Url("")
Flash(category, message) == [category |-> category, message |-> message]
NoFlash == Flash("", "")

\* a response: status, redirect target, flashed message, rendered template,
\* the exception that escaped the handler, and the requests sent to the vendor
Response(status, location, flash, body, exc, vendor) ==
    [status |-> status, location |-> location, flash |-> flash, body |-> body,
     exc |-> exc, vendor |-> vendor]

Redirect(url, flash) == Response(302, url, flash, "", "none", << >>)
Raised(exc) == Response(500, NoUrl, NoFlash, "", exc, << >>)
NotFound == Response(404, NoUrl, NoFlash, "", "none", << >>)
Rendered(body, flash) == Response(200, NoUrl, flash, body, "none", << >>)

Init ==
    /\ users = (1 :> AdminUser)
    /\ categories = << >>
    /\ contacts = << >>
    /\ session = ANONYMOUS
    /\ pending = << >>
    /\ last = Rendered("", NoFlash)

(* --------------------------- the database ------------------------------ *)

\* Category(name=...) and Contact(name=..., phone=..., category_id=...)
CategoryObj(name) ==
    [kind |-> "Category", name |-> name, phone |-> NONE, category_id |-> NULLID]
ContactObj(name, phone, category_id) ==
    [kind |-> "Contact", name |-> name, phone |-> phone, category_id |-> category_id]

\* db.session.add
SessionAdd(new, obj) == Append(new, obj)

\* the flush's INSERTs, in the order the objects were added
RECURSIVE InsertAll(_, _, _)
InsertAll(cats, conts, new) ==
    IF new = << >> THEN [categories |-> cats, contacts |-> conts]
    ELSE LET o == Head(new) IN
         IF o.kind = "Category"
         THEN InsertAll(cats @@ (NextId(DOMAIN cats) :> [name |-> Bind(o.name)]),
                        conts, Tail(new))
         ELSE InsertAll(cats,
                        conts @@ (NextId(DOMAIN conts) :>
                                    [name |-> Bind(o.name), phone |-> Bind(o.phone),
                                     category_id |-> o.category_id]),
                        Tail(new))

\* the flush's UPDATEs of the contacts in `dirty` (id -> [name, phone])
UpdateAll(conts, dirty) ==
    [k \in DOMAIN conts |->
        IF k \in DOMAIN dirty
        THEN [conts[k] EXCEPT !.name = Bind(dirty[k].name), !.phone = Bind(dirty[k].phone)]
        ELSE conts[k]]

\* Category.contacts is a relationship without a delete cascade: the flush of
\* a deleted Category sets the category_id of its Contacts to NULL
OrphanChildren(conts, delCats) == conts
NullifyChildren(conts, delCats) ==
    [k \in DOMAIN conts |->
        IF conts[k].category_id \in delCats
        THEN [conts[k] EXCEPT !.category_id = NULLID]
        ELSE conts[k]]

Restrict(f, S) == [k \in S |-> f[k]]

\* the NOT NULL and UNIQUE constraints of models.py (SQLite does not enforce
\* the foreign key unless asked to, and app.py does not ask)
IntegrityOK(cats, conts) ==
    /\ \A c \in DOMAIN cats : cats[c].name # NONE
    /\ \A c, d \in DOMAIN cats : cats[c].name = cats[d].name => c = d
    /\ \A k \in DOMAIN conts :
          /\ conts[k].name # NONE
          /\ conts[k].phone # NONE
          /\ conts[k].category_id # NULLID

\* db.session.commit(): flush the unit of work; a violated constraint raises
\* IntegrityError and rolls everything back
Commit(new, dirty, delCats, delConts) ==
    LET ins == InsertAll(categories, contacts, new)
        upd == UpdateAll(ins.contacts, dirty)
        nul == NullifyChildren(upd, delCats)
        cs  == Restrict(ins.categories, DOMAIN ins.categories \ delCats)
        ks  == Restrict(nul, DOMAIN nul \ delConts)
    IN  IF IntegrityOK(ins.categories, nul)
        THEN [ok |-> TRUE, categories |-> cs, contacts |-> ks]
        ELSE [ok |-> FALSE, categories |-> categories, contacts |-> contacts]

\* db.init_app(app) registers the teardown that removes the scoped session
\* when the request ends: what was added and not committed is discarded
KeepSession(new) == new
ShutdownSession(new) == << >>

(* --------------------------- request plumbing -------------------------- *)

NoDirty == << >>

\* load_user, and current_user.is_authenticated
LoadUser(user_id) == IF user_id \in DOMAIN users THEN user_id ELSE ANONYMOUS
IsAuthenticated == LoadUser(session) # ANONYMOUS

\* what a handled request leaves: the response, the tables, the browser's
\* session, and db.session after the teardown
Finish(resp, cats, conts, new, sess) ==
    [last |-> resp, categories |-> cats, contacts |-> conts,
     pending |-> ShutdownSession(new), session |-> sess]

\* a response that changes nothing
Answer(resp) == Finish(resp, categories, contacts, pending, session)

\* login_manager.login_view = 'login': an anonymous request is sent to login
Unauthorized ==
    Answer(Redirect(Url("login"), Flash("info", "Please log in to access this page.")))

\* @login_required
LoginNotRequired(view) == view
login_required(view) == IF IsAuthenticated THEN view ELSE Unauthorized

\* the step of the state machine that handles one request
Handle(r) ==
    /\ last' = r.last
    /\ categories' = r.categories
    /\ contacts' = r.contacts
    /\ pending' = r.pending
    /\ session' = r.session
    /\ UNCHANGED users

(* ------------------------------ the routes ----------------------------- *)

\* GET /
home_route == Answer(Rendered("home", NoFlash))

\* GET /dashboard
dashboard_route == login_required(Answer(Rendered("dashboard.html", NoFlash)))

\* POST /add_category
add_category_view(name) ==
    IF Strip(name) = << >>
    THEN Answer(Redirect(Url("dashboard"), Flash("danger", "Category name cannot be empty!")))
    ELSE IF \E c \in DOMAIN categories : categories[c].name = name
    THEN Answer(Redirect(Url("dashboard"), Flash("warning", "Category already exists!")))
    ELSE LET r == Commit(SessionAdd(pending, CategoryObj(name)), NoDirty, {}, {})
         IN  IF r.ok
             THEN Finish(Redirect(Url("dashboard"),
                                  Flash("success", "Category added successfully!")),
                         r.categories, r.contacts, << >>, session)
             ELSE Finish(Raised("IntegrityError"), r.categories, r.contacts, << >>, session)

add_category_route(name) == login_required(add_category_view(name))

\* POST /delete_category/<id>
delete_category_view(id) ==
    IF id \in DOMAIN categories
    THEN LET r == Commit(pending, NoDirty, {id}, {})
         IN  IF r.ok
             THEN Finish(Redirect(Url("dashboard"),
                                  Flash("success", "Category deleted successfully!")),
                         r.categories, r.contacts, << >>, session)
             ELSE Finish(Raised("IntegrityError"), r.categories, r.contacts, << >>, session)
    ELSE Answer(Redirect(Url("dashboard"), Flash("danger", "Category not found!")))

delete_category_route(id) == login_required(delete_category_view(id))

\* GET /contacts/<category_id>
view_contacts_view(category_id) ==
    IF category_id \in DOMAIN categories
    THEN Answer(Rendered("contacts.html", NoFlash))
    ELSE Answer(NotFound)

view_contacts_route(category_id) == login_required(view_contacts_view(category_id))

\* the uploaded file: none selected, one pandas cannot read, or a sheet of
\* at most n rows whose columns may include "Phone" and "Name" (the cells of
\* a column the sheet lacks do not exist)
Rows(n) ==
    UNION {[1..m -> [Name : NameCells, Phone : PhoneCells]] : m \in 0..n}
NoFile ==
    [present |-> FALSE, readable |-> FALSE, hasPhone |-> FALSE, hasName |-> FALSE,
     rows |-> << >>]
Unreadable ==
    [present |-> TRUE, readable |-> FALSE, hasPhone |-> FALSE, hasName |-> FALSE,
     rows |-> << >>]
Sheets(n) ==
    {f \in [present : {TRUE}, readable : {TRUE}, hasPhone : BOOLEAN, hasName : BOOLEAN,
            rows : Rows(n)] :
        \A i \in 1..Len(f.rows) :
            /\ ~f.hasPhone => f.rows[i].Phone = NAN
            /\ ~f.hasName => f.rows[i].Name = NAN}

\* the model uploads the sheets whose rows fit in the ids that are left
Files == {NoFile, Unreadable} \cup Sheets(MaxContactId + 1 - NextId(DOMAIN contacts))

\* where the environment makes the import fail: nowhere, in file.save, in
\* the loop's iteration `at`, or in the commit
NoFault == [kind |-> "none", at |-> 0]
Faults(f) ==
    {NoFault}
        \cup (IF f.present THEN {[kind |-> "save", at |-> 0]} ELSE {})
        \cup (IF f.readable THEN {[kind |-> "commit", at |-> 0]} ELSE {})
        \cup {[kind |-> "loop", at |-> i] : i \in 1..Len(f.rows)}

\* the loop's body for one row
StageRow(new, f, row, category_id) ==
    IF f.hasPhone
    THEN SessionAdd(new, ContactObj(IF f.hasName THEN row.Name ELSE NONE,
                                    Str(row.Phone), category_id))
    ELSE new

\* the loop over the first n rows
RECURSIVE StageRows(_, _, _, _)
StageRows(new, f, n, category_id) ==
    IF n = 0 THEN new
    ELSE StageRow(StageRows(new, f, n - 1, category_id), f, f.rows[n], category_id)

\* flash(f"Error uploading contacts: {e}", "danger")
UploadError(e) == Flash("danger", "Error uploading contacts: " \o e)

\* POST /upload_contacts/<category_id>
upload_contacts_view(category_id, file, fault) ==
    LET back == Url("view_contacts")
        all  == StageRows(pending, file, Len(file.rows), category_id)
        r    == Commit(all, NoDirty, {}, {})
    IN
    IF category_id \notin DOMAIN categories
    THEN Answer(NotFound)
    ELSE IF ~file.present
    THEN Answer(Redirect(back, Flash("danger", "No file selected!")))
    ELSE IF fault.kind = "save"
    THEN Answer(Raised("OSError"))
    ELSE IF ~file.readable
    THEN Answer(Redirect(back, UploadError("ValueError")))
    ELSE IF fault.kind = "loop"
    THEN Finish(Redirect(back, UploadError("Exception")), categories, contacts,
                StageRows(pending, file, fault.at - 1, category_id), session)
    ELSE IF fault.kind = "commit"
    THEN Finish(Redirect(back, UploadError("OperationalError")), categories, contacts,
                all, session)
    ELSE IF r.ok
    THEN Finish(Redirect(back, Flash("success", "Contacts uploaded successfully!")),
                r.categories, r.contacts, << >>, session)
    ELSE Finish(Redirect(back, UploadError("IntegrityError")), r.categories, r.contacts,
                all, session)

upload_contacts_route(category_id, file, fault) ==
    login_required(upload_contacts_view(category_id, file, fault))

\* POST /add_contact/<category_id>
add_contact_view(category_id, name, phone) ==
    LET back == Url("view_contacts")
        r    == Commit(SessionAdd(pending, ContactObj(name, phone, category_id)),
                       NoDirty, {}, {})
    IN
    IF category_id \notin DOMAIN categories
    THEN Answer(NotFound)
    ELSE IF phone = NONE
    THEN Answer(Raised("AttributeError"))
    ELSE IF Strip(phone) = << >>
    THEN Answer(Redirect(back, Flash("danger", "Phone number is required!")))
    ELSE IF r.ok
    THEN Finish(Redirect(back, Flash("success", "Contact added successfully!")),
                r.categories, r.contacts, << >>, session)
    ELSE Finish(Raised("IntegrityError"), r.categories, r.contacts, << >>, session)

add_contact_route(category_id, name, phone) ==
    login_required(add_contact_view(category_id, name, phone))

\* POST /edit_contact/<contact_id>
edit_contact_view(contact_id, name, phone) ==
    LET r == Commit(pending, contact_id :> [name |-> name, phone |-> phone], {}, {})
    IN
    IF contact_id \notin DOMAIN contacts
    THEN Answer(NotFound)
    ELSE IF r.ok
    THEN Finish(Redirect(Url("view_contacts"),
                         Flash("success", "Contact updated successfully!")),
                r.categories, r.contacts, << >>, session)
    ELSE Finish(Raised("IntegrityError"), r.categories, r.contacts, << >>, session)

edit_contact_route(contact_id, name, phone) ==
    login_required(edit_contact_view(contact_id, name, phone))

\* POST /delete_contact/<contact_id>
delete_contact_view(contact_id) ==
    LET r == Commit(pending, NoDirty, {}, {contact_id})
    IN
    IF contact_id \notin DOMAIN contacts
    THEN Answer(NotFound)
    ELSE IF r.ok
    THEN Finish(Redirect(Url("view_contacts"),
                         Flash("success", "Contact deleted successfully!")),
                r.categories, r.contacts, << >>, session)
    ELSE Finish(Raised("IntegrityError"), r.categories, r.contacts, << >>, session)

delete_contact_route(contact_id) == login_required(delete_contact_view(contact_id))

\* [c.phone for c in owned], in the order of the contacts' ids
RECURSIVE PhonesUpTo(_, _)
PhonesUpTo(owned, n) ==
    IF n = 0 THEN << >>
    ELSE IF n \in owned THEN Append(PhonesUpTo(owned, n - 1), contacts[n].phone)
    ELSE PhonesUpTo(owned, n - 1)

\* category.contacts
Owned(category_id) == {k \in DOMAIN contacts : contacts[k].category_id = category_id}

\* [c.phone for c in category.contacts]
EveryPhone(category_id) == PhonesUpTo(DOMAIN contacts, NextId(DOMAIN contacts) - 1)
CategoryPhones(category_id) == PhonesUpTo(Owned(category_id), NextId(DOMAIN contacts) - 1)

\* `not message or not message.strip()` and `not contacts`
IsBlankMessage(message) == message = NONE \/ Strip(message) = << >>
NeverEmpty(recipients) == FALSE
IsEmptyList(recipients) == recipients = << >>

\* what the vendor answers: 200, another status, or no answer at all
VendorOutcomes == {"200", "500", "ConnectionError"}

\* requests.post(url, json=payload): the requests that leave the process
RequestsPost(payload) == <<payload>>

\* the flash that follows the vendor's answer
VendorFlash(outcome) ==
    IF outcome = "200" THEN Flash("success", "Messages sent successfully!")
    ELSE IF outcome = "500" THEN Flash("danger", "Failed to send SMS")
    ELSE Flash("danger", "Error sending SMS")

\* POST /send_sms/<category_id>
send_sms_view(category_id, message, outcome) ==
    LET back == Url("view_contacts")
        recipients == CategoryPhones(category_id)
        payload == [recipient |-> recipients, message |-> message]
    IN
    IF category_id \notin DOMAIN categories
    THEN Answer(NotFound)
    ELSE IF IsBlankMessage(message)
    THEN Answer(Redirect(back, Flash("danger", "Message cannot be empty!")))
    ELSE IF IsEmptyList(recipients)
    THEN Answer(Redirect(back, Flash("danger", "No contacts found in this category!")))
    ELSE Answer(Response(302, back, VendorFlash(outcome), "", "none",
                         RequestsPost(payload)))

send_sms_route(category_id, message, outcome) ==
    login_required(send_sms_view(category_id, message, outcome))

\* User.query.filter_by(username=username).first()
UserByName(username) ==
    IF \E u \in DOMAIN users : users[u].username = username
    THEN CHOOSE u \in DOMAIN users : users[u].username = username
    ELSE ANONYMOUS

\* GET and POST /login
login_route(method, username, password) ==
    LET user == UserByName(username)
    IN
    IF method = "POST" /\ user # ANONYMOUS /\ CheckPassword(users[user], password)
    THEN Finish(Redirect(Url("dashboard"), Flash("success", "Login successful!")),
                categories, contacts, pending, user)
    ELSE Answer(Rendered("login.html",
                         IF method = "POST"
                         THEN Flash("danger", "Invalid username or password")
                         ELSE NoFlash))

\* GET /logout
logout_route ==
    login_required(Finish(Redirect(Url("login"), Flash("info", "Logged out successfully!")),
                          categories, contacts, pending, ANONYMOUS))

(* ------------------------------ the requests --------------------------- *)

\* the ids the model's requests name
CategoryIds == 1..MaxCategoryId
ContactIds == 1..MaxContactId

\* the model's bound on the ids a request may allocate
WithinBounds(r) ==
    /\ DOMAIN r.categories \subseteq CategoryIds
    /\ DOMAIN r.contacts \subseteq ContactIds

\* whether send_sms gets as far as the vendor (who answers only then)
AsksVendor(category_id, message) ==
    /\ IsAuthenticated
    /\ category_id \in DOMAIN categories
    /\ ~IsBlankMessage(message)
    /\ ~IsEmptyList(CategoryPhones(category_id))

home == Handle(home_route)

dashboard == Handle(dashboard_route)

add_category ==
    \E name \in CategoryNames :
        /\ WithinBounds(add_category_route(name))
        /\ Handle(add_category_route(name))

delete_category == \E id \in CategoryIds : Handle(delete_category_route(id))

view_contacts == \E category_id \in CategoryIds : Handle(view_contacts_route(category_id))

\* (a request for a missing category is answered before its file is read)
upload_contacts ==
    \E category_id \in CategoryIds :
        \E file \in IF category_id \in DOMAIN categories THEN Files ELSE {NoFile} :
            \E fault \in Faults(file) :
                Handle(upload_contacts_route(category_id, file, fault))

add_contact ==
    \E category_id \in CategoryIds, name \in ContactNames, phone \in ContactPhones :
        /\ WithinBounds(add_contact_route(category_id, name, phone))
        /\ Handle(add_contact_route(category_id, name, phone))

edit_contact ==
    \E contact_id \in ContactIds, name \in ContactNames, phone \in EditPhones :
        Handle(edit_contact_route(contact_id, name, phone))

delete_contact == \E contact_id \in ContactIds : Handle(delete_contact_route(contact_id))

send_sms ==
    \E category_id \in CategoryIds, message \in Messages :
        \E outcome \in IF AsksVendor(category_id, message) THEN VendorOutcomes ELSE {"200"} :
            Handle(send_sms_route(category_id, message, outcome))

login ==
    \E method \in {"GET", "POST"}, username \in Usernames, password \in Passwords :
        Handle(login_route(method, username, password))

logout == Handle(logout_route)

Next ==
    \/ home
    \/ dashboard
    \/ add_category
    \/ delete_category
    \/ view_contacts
    \/ upload_contacts
    \/ add_contact
    \/ edit_contact
    \/ delete_contact
    \/ send_sms
    \/ login
    \/ logout

Spec == Init /\ [][Next]_vars

(* ------------------------------ properties ----------------------------- *)
(* A property of a handler is stated over every reachable state in which   *)
(* the request can arrive and over every input of the request: the route   *)
(* is applied to the state and its outcome is compared with the claim.     *)

\* a string that is empty or holds only blanks
Blank(s) == \A i \in 1..Len(s) : s[i] = " "

\* how often x occurs in the sequence q
Count(q, x) == Cardinality({i \in 1..Len(q) : q[i] = x})

\* the rows the outcome r added to the contact table, in the order of their ids
Added(r) ==
    [i \in 1..Cardinality(DOMAIN r.contacts \ DOMAIN contacts) |->
        r.contacts[NextId(DOMAIN contacts) + i - 1]]

\* the outcome r kept every contact there was
KeptContacts(r) ==
    /\ DOMAIN contacts \subseteq DOMAIN r.contacts
    /\ \A k \in DOMAIN contacts : r.contacts[k] = contacts[k]

\* the outcome r left both tables as they were
StoreUnchanged(r) == r.categories = categories /\ r.contacts = contacts

\* C1: delete_category(c) of an existing category c lets no exception escape
\* and leaves neither the category c nor a contact whose category_id is c,
\* also when c owns contacts.
C1_DeleteCategoryCascades ==
    IsAuthenticated =>
        \A c \in DOMAIN categories :
            LET r == delete_category_route(c)
            IN  /\ r.last.exc = "none"
                /\ c \notin DOMAIN r.categories
                /\ \A k \in DOMAIN r.contacts : r.contacts[k].category_id # c

\* C2: an upload of a sheet with a "Phone" column to an existing category adds
\* exactly one contact per row whose Phone is not empty (its name the row's
\* Name, or null when there is none) and none for a row whose Phone is empty.
C2_UploadSkipsBlankPhones ==
    IsAuthenticated =>
        \A c \in DOMAIN categories :
            \A f \in {g \in Files : g.readable /\ g.hasPhone} :
                LET r == upload_contacts_route(c, f, NoFault)
                    accepted == SelectSeq(f.rows, LAMBDA row : row.Phone # NAN)
                IN  /\ KeptContacts(r)
                    /\ Added(r) =
                         [i \in 1..Len(accepted) |->
                            [name |-> IF accepted[i].Name = NAN THEN NONE
                                      ELSE accepted[i].Name,
                             phone |-> accepted[i].Phone,
                             category_id |-> c]]

\* C3: upload_contacts is all or nothing: when the import fails anywhere (in
\* saving the file, reading it, the loop or the commit) the contacts are what
\* they were and nothing that was staged is left for a later commit to
\* persist; when it succeeds, all the rows it staged are added together.
C3_UploadAllOrNothing ==
    /\ pending = << >>
    /\ IsAuthenticated =>
        \A c \in DOMAIN categories :
            \A f \in Files :
                \A fault \in Faults(f) :
                    LET r == upload_contacts_route(c, f, fault)
                        staged == StageRows(<< >>, f, Len(f.rows), c)
                    IN  /\ r.categories = categories
                        /\ r.pending = << >>
                        /\ IF r.last.flash.category = "success"
                           THEN /\ KeptContacts(r)
                                /\ Added(r) =
                                     [i \in 1..Len(staged) |->
                                        [name |-> staged[i].name, phone |-> staged[i].phone,
                                         category_id |-> c]]
                           ELSE r.contacts = contacts

\* a failed import that had staged a row, after which the table holds contacts
C3_Witness ==
    /\ last.flash = UploadError("IntegrityError")
    /\ contacts # << >>

\* the outcomes of every protected request, over all its inputs
ProtectedOutcomes ==
    {dashboard_route}
        \cup {add_category_route(n) : n \in CategoryNames}
        \cup {delete_category_route(c) : c \in CategoryIds}
        \cup {view_contacts_route(c) : c \in CategoryIds}
        \cup UNION {{upload_contacts_route(c, f, fault) : fault \in Faults(f)} :
                        c \in CategoryIds, f \in Files}
        \cup {add_contact_route(c, n, p) :
                 c \in CategoryIds, n \in ContactNames, p \in ContactPhones}
        \cup {edit_contact_route(k, n, p) :
                 k \in ContactIds, n \in ContactNames, p \in EditPhones}
        \cup {delete_contact_route(k) : k \in ContactIds}
        \cup {send_sms_route(c, m, o) :
                 c \in CategoryIds, m \in Messages, o \in VendorOutcomes}

\* C4: without an authenticated session every protected operation redirects
\* to login, leaves the category and contact tables unchanged and sends the
\* vendor nothing.
C4_AnonymousIsRedirected ==
    ~IsAuthenticated =>
        \A r \in ProtectedOutcomes :
            /\ r.last.status = 302
            /\ r.last.location = Url("login")
            /\ StoreUnchanged(r)
            /\ r.last.vendor = << >>

\* an anonymous request was sent to login while the tables held rows
C4_Witness ==
    /\ ~IsAuthenticated
    /\ last = Unauthorized.last
    /\ categories # << >>
    /\ contacts # << >>

\* C5 as stated: for a category without contacts and every message, send_sms
\* sends the vendor nothing and reports the 'no contacts' error.
C5_NoContactsAlwaysReported ==
    IsAuthenticated =>
        \A c \in DOMAIN categories, m \in Messages, o \in VendorOutcomes :
            Owned(c) = {} =>
                LET r == send_sms_route(c, m, o)
                IN  /\ r.last.vendor = << >>
                    /\ r.last.flash.message = "No contacts found in this category!"

\* C5, amended: for a category without contacts send_sms sends the vendor
\* nothing, and reports the 'no contacts' error when the message is not
\* blank (a blank message is reported as such first); and no request is sent
\* for a missing, empty or whitespace-only message.
C5_NoRequestWithoutContactsOrMessage ==
    IsAuthenticated =>
        \A c \in DOMAIN categories, m \in Messages, o \in VendorOutcomes :
            LET r == send_sms_route(c, m, o)
                blank == m = NONE \/ Blank(m)
            IN  /\ (Owned(c) = {} \/ blank) => r.last.vendor = << >> /\ StoreUnchanged(r)
                /\ (Owned(c) = {} /\ ~blank) =>
                        r.last.flash = Flash("danger", "No contacts found in this category!")
                /\ blank => r.last.flash = Flash("danger", "Message cannot be empty!")

\* send_sms was refused for a category that owns no contact
C5_Witness ==
    /\ last.flash.message = "No contacts found in this category!"
    /\ last.vendor = << >>

\* C6: for a category with at least one contact and a message that is not
\* blank, send_sms sends the vendor exactly one request, whatever the vendor
\* answers, and its recipients are the phones of the category's contacts,
\* each once per contact, and of no other contact.
C6_OneRequestToTheCategory ==
    IsAuthenticated =>
        \A c \in DOMAIN categories, m \in Messages, o \in VendorOutcomes :
            (Owned(c) # {} /\ m # NONE /\ ~Blank(m)) =>
                LET r == send_sms_route(c, m, o)
                IN  /\ Len(r.last.vendor) = 1
                    /\ r.last.vendor[1].message = m
                    /\ Len(r.last.vendor[1].recipient) = Cardinality(Owned(c))
                    /\ \A k \in DOMAIN contacts :
                          Count(r.last.vendor[1].recipient, contacts[k].phone) =
                            Cardinality({j \in Owned(c) : contacts[j].phone = contacts[k].phone})

\* one request went out while another category held a contact it did not name
C6_Witness ==
    /\ Len(last.vendor) = 1
    /\ Len(last.vendor[1].recipient) < Cardinality(DOMAIN contacts)
    /\ last.flash.message = "Failed to send SMS"

\* C7: add_category(name) leaves the store unchanged when the name is blank
\* or is the name of an existing category, and otherwise adds exactly one
\* category of that name; so no two categories ever share a name.
C7_AddCategory ==
    /\ \A c, d \in DOMAIN categories : categories[c].name = categories[d].name => c = d
    /\ IsAuthenticated =>
        \A name \in CategoryNames :
            LET r == add_category_route(name)
            IN  IF Blank(name) \/ \E c \in DOMAIN categories : categories[c].name = name
                THEN StoreUnchanged(r)
                ELSE /\ r.contacts = contacts
                     /\ \E id \in DOMAIN r.categories \ DOMAIN categories :
                           r.categories = categories @@ (id :> [name |-> name])

\* a second category of an existing name was refused
C7_Witness ==
    /\ last.flash.message = "Category already exists!"
    /\ Cardinality(DOMAIN categories) = 2

\* C8: for an existing category, add_contact creates a contact exactly when
\* the phone is not blank: a blank or missing phone reports an error and
\* creates nothing without raising, and any other phone creates exactly one
\* contact of that category, with or without a name.
C8_AddContact ==
    IsAuthenticated =>
        \A c \in DOMAIN categories, n \in ContactNames, p \in ContactPhones :
            LET r == add_contact_route(c, n, p)
            IN  /\ r.last.exc = "none"
                /\ IF p = NONE \/ Blank(p)
                   THEN StoreUnchanged(r) /\ r.last.flash.category = "danger"
                   ELSE /\ KeptContacts(r)
                        /\ Added(r) = <<[name |-> n, phone |-> p, category_id |-> c]>>

\* C9: login establishes a session and redirects to the dashboard if and
\* only if the username is a user's and the password is that user's (the
\* one init_db.py gave it); otherwise the session is as it was and the
\* login form is shown again with an error.
C9_Login ==
    \A username \in Usernames, password \in Passwords :
        LET r == login_route("POST", username, password)
            good == /\ username = <<"a", "d", "m", "i", "n">>
                    /\ password = <<"1", "2", "3", "4", "5">>
        IN  IF good
            THEN /\ r.session \in DOMAIN users
                 /\ users[r.session].username = username
                 /\ r.last.status = 302
                 /\ r.last.location = Url("dashboard")
            ELSE /\ r.session = session
                 /\ r.last.body = "login.html"
                 /\ r.last.flash = Flash("danger", "Invalid username or password")

\* a login succeeded
C9_Witness ==
    /\ IsAuthenticated
    /\ last.flash.message = "Login successful!"

\* C10: every contact references exactly one category, which exists, and
\* the category of a contact never changes while the contact exists.
C10_ContactsKeepTheirCategory ==
    [][/\ \A k \in DOMAIN contacts' : contacts'[k].category_id \in DOMAIN categories'
       /\ \A k \in DOMAIN contacts \cap DOMAIN contacts' :
             contacts'[k].category_id = contacts[k].category_id]_vars

\* a category was deleted while another category owned contacts
C10_Witness ==
    /\ last.flash.message = "Category deleted successfully!"
    /\ contacts # << >>

====
